---- MODULE Spec2Model ----
(***************************************************************************)
(* Deep Zoom tile pyramid generator (deepzoom_generator.py).               *)
(*                                                                         *)
(* Spec      the build: DeepZoomGenerator.generate_tiles() stepping        *)
(*           through its levels and tiles, with the failures the storage   *)
(*           and the resampler can raise, and generate_deepzoom_vips().    *)
(* SpecPlan  the pure planning arithmetic: get_num_levels() and            *)
(*           get_scale_dimensions(level) over a range of source sizes.     *)
(***************************************************************************)
EXTENDS Integers, Sequences, FiniteSets

(* ------------------------------- bounds -------------------------------- *)

\* Source widths and heights explored by the build are 1..MaxDim.
MaxDim == 6

\* Tile sizes explored by the build are 1..MaxTile.
MaxTile == 3

\* Overlaps explored by the build are 0..MaxOverlap.
MaxOverlap == 2

\* Source widths and heights explored by the planning arithmetic are 1..MaxPlanDim.
MaxPlanDim == 9

(* ------------------------- program constants --------------------------- *)

\* __init__'s default tile_size.
DefaultTileSize == 256

\* __init__'s default overlap.
DefaultOverlap == 1

\* quality=90 of save_tile's JPEG encode.
JpegQuality == 90

\* tile_size=256 of generate_deepzoom_vips' dzsave call.
VipsTileSize == 256

\* overlap=1 of generate_deepzoom_vips' dzsave call.
VipsOverlap == 1

\* Q=90 in the suffix of generate_deepzoom_vips' dzsave call.
VipsQuality == 90

(* --------------------------- pure arithmetic --------------------------- *)

Max(a, b) == IF a >= b THEN a ELSE b

Min(a, b) == IF a <= b THEN a ELSE b

\* 2 ** e for e >= 0.
RECURSIVE Pow2(_)
Pow2(e) == IF e <= 0 THEN 1 ELSE 2 * Pow2(e - 1)

\* math.ceil(a / b) for a >= 0, b >= 1: the true quotient rounded up.
CeilDiv(a, b) == IF a % b = 0 THEN a \div b ELSE (a \div b) + 1

\* math.ceil(math.log2(n)) for n >= 1: log2 is exact on powers of two and
\* lies strictly between k-1 and k for 2^(k-1) < n < 2^k, so the ceiling is
\* found by counting the halvings (rounded up) that bring n down to 1.
RECURSIVE CeilLog2(_)
CeilLog2(n) == IF n <= 1 THEN 0 ELSE 1 + CeilLog2((n + 1) \div 2)

\* math.floor(math.log2(n)) for n >= 1.
RECURSIVE FloorLog2(_)
FloorLog2(n) == IF n <= 1 THEN 0 ELSE 1 + FloorLog2(n \div 2)

\* get_num_levels with the logarithm rounded down instead of up.
get_num_levels_floor(w, h) == FloorLog2(Max(w, h)) + 1

\* DeepZoomGenerator.get_num_levels
get_num_levels(w, h) == CeilLog2(Max(w, h)) + 1

\* get_scale_dimensions with max_level taken as get_num_levels() (off by one).
get_scale_dimensions_offbyone(w, h, lvl) ==
    LET max_level == get_num_levels(w, h)
        scale == Pow2(max_level - lvl)
    IN  <<CeilDiv(w, scale), CeilDiv(h, scale)>>

\* DeepZoomGenerator.get_scale_dimensions
get_scale_dimensions(w, h, lvl) ==
    LET max_level == get_num_levels(w, h) - 1
        scale == Pow2(max_level - lvl)
    IN  <<CeilDiv(w, scale), CeilDiv(h, scale)>>

\* The tile grid of generate_level with the count rounded down.
TileCount_floor(extent, ts) == extent \div ts

\* cols / rows of generate_level: math.ceil(level_width / self.tile_size).
TileCount(extent, ts) == CeilDiv(extent, ts)

\* save_tile's crop box without the clamp to the level's far edges.
CropBox_unclamped(c, r, lw, lh, ts, ov) ==
    LET x == c * ts
        y == r * ts
    IN  [x1 |-> Max(0, x - ov), y1 |-> Max(0, y - ov),
         x2 |-> x + ts + ov, y2 |-> y + ts + ov]

\* save_tile's crop box with the overlap left out on the near side.
CropBox_nonear(c, r, lw, lh, ts, ov) ==
    LET x == c * ts
        y == r * ts
    IN  [x1 |-> x, y1 |-> y,
         x2 |-> Min(lw, x + ts + ov), y2 |-> Min(lh, y + ts + ov)]

\* save_tile's crop box with the overlap's sign flipped: the box shrunk by
\* the overlap instead of grown.
CropBox_shrunk(c, r, lw, lh, ts, ov) ==
    LET x == c * ts
        y == r * ts
    IN  [x1 |-> Max(0, x + ov), y1 |-> Max(0, y + ov),
         x2 |-> Min(lw, x + ts - ov), y2 |-> Min(lh, y + ts - ov)]

\* The crop box save_tile hands to img.crop.
CropBox(c, r, lw, lh, ts, ov) ==
    LET x == c * ts
        y == r * ts
    IN  [x1 |-> Max(0, x - ov), y1 |-> Max(0, y - ov),
         x2 |-> Min(lw, x + ts + ov), y2 |-> Min(lh, y + ts + ov)]

\* reversed(range(n)) as a sequence.
LevelRange_reversed(n) == [i \in 1..n |-> n - i]

\* range(num_levels) of generate_tiles as a sequence: 0, 1, ..., n-1.
LevelRange(n) == [i \in 1..n |-> i - 1]

(* ------------------------------- state --------------------------------- *)

VARIABLES
    width, height,      \* self.width, self.height (the source image's size)
    tile_size,          \* self.tile_size
    overlap,            \* self.overlap
    image_format,       \* self.image_format
    rootOK,             \* environment: the output root can be created and written
    vipsAvailable,      \* environment: import pyvips succeeds
    pc,                 \* position of the caller / of generate_tiles
    err,                \* the call that raised, "none" while nothing has
    num_levels,         \* generate_tiles' local num_levels
    li,                 \* position of the level loop in range(num_levels), 1-based
    level,              \* the level loop's variable
    level_width, level_height,  \* generate_level's locals (the size of scaled_img)
    cols, rows,         \* generate_level's locals
    col, row,           \* the tile loops' variables
    resized,            \* log of img.resize calls that returned: <<level, w, h>>
    progress,           \* log of the per-level lines printed: <<level, w, h, cols, rows>>
    dirs,               \* level directories that exist under the output root
    saved,              \* log of save_tile calls that wrote their tile
    dzi,                \* log of descriptor documents written
    vipsResult,         \* what generate_deepzoom_vips returned, "none" before the call
    dzsaveLog,          \* log of image.dzsave calls that returned
    plan                \* SpecPlan: the level sizes computed so far

vars == <<width, height, tile_size, overlap, image_format, rootOK, vipsAvailable,
          pc, err, num_levels, li, level, level_width, level_height, cols, rows,
          col, row, resized, progress, dirs, saved, dzi, vipsResult, dzsaveLog, plan>>

config == <<width, height, tile_size, overlap, image_format, rootOK, vipsAvailable>>

levelLocals == <<level_width, level_height, cols, rows>>

\* Everything the program has put on storage.
Storage == <<dirs, saved, dzi, dzsaveLog>>

\* The geometries a build is explored for: every small one, and the
\* documented 1000x600 source with the default tile geometry.
Geometries ==
    { <<w, h, ts, ov>> : w \in 1..MaxDim, h \in 1..MaxDim,
                         ts \in 1..MaxTile, ov \in 0..MaxOverlap }
    \cup { <<1000, 600, DefaultTileSize, DefaultOverlap>> }

\* The state after DeepZoomGenerator.__init__, on storage holding nothing of the build.
Init ==
    /\ \E g \in Geometries :
          /\ width = g[1]
          /\ height = g[2]
          /\ tile_size = g[3]
          /\ overlap = g[4]
    /\ image_format \in {"jpg", "png"}
    /\ rootOK \in BOOLEAN
    /\ vipsAvailable \in BOOLEAN
    /\ pc = "start"
    /\ err = "none"
    /\ num_levels = 0
    /\ li = 0
    /\ level = 0
    /\ level_width = 0
    /\ level_height = 0
    /\ cols = 0
    /\ rows = 0
    /\ col = 0
    /\ row = 0
    /\ resized = <<>>
    /\ progress = <<>>
    /\ dirs = {}
    /\ saved = <<>>
    /\ dzi = <<>>
    /\ vipsResult = "none"
    /\ dzsaveLog = <<>>
    /\ plan = <<>>

(* ------------------------- generate_tiles ------------------------------ *)

\* The level loop moves on: the next element of range(num_levels), or, past
\* the last one, the call of generate_dzi_descriptor.
NextLevel ==
    /\ li' = li + 1
    /\ IF li + 1 <= Len(LevelRange(num_levels))
          THEN /\ pc' = "level"
               /\ level' = LevelRange(num_levels)[li + 1]
          ELSE /\ pc' = "dzi"
               /\ level' = level

\* generate_tiles up to the level loop: num_levels and the first iteration.
GenerateTilesBegin ==
    /\ pc = "start"
    /\ num_levels' = get_num_levels(width, height)
    /\ li' = 1
    /\ IF Len(LevelRange(num_levels')) >= 1
          THEN /\ pc' = "level"
               /\ level' = LevelRange(num_levels')[1]
          ELSE /\ pc' = "dzi"
               /\ level' = level
    /\ UNCHANGED <<config, err, levelLocals, col, row, resized, progress, dirs,
                   saved, dzi, vipsResult, dzsaveLog, plan>>

\* generate_level up to its print: the level's size, the resample of the
\* original image to it, the tile grid, and the progress line.
LevelResize ==
    /\ pc = "level"
    /\ LET d == get_scale_dimensions(width, height, level)
           c == TileCount(d[1], tile_size)
           r == TileCount(d[2], tile_size)
       IN  /\ level_width' = d[1]
           /\ level_height' = d[2]
           /\ resized' = Append(resized, <<level, d[1], d[2]>>)
           /\ cols' = c
           /\ rows' = r
           /\ progress' = Append(progress, <<level, d[1], d[2], c, r>>)
    /\ pc' = "mkdir"
    /\ UNCHANGED <<config, err, num_levels, li, level, col, row, dirs, saved, dzi,
                   vipsResult, dzsaveLog, plan>>

\* self.img.resize raises: the exception leaves generate_level and
\* generate_tiles, neither of which catches anything.
ResizeFails ==
    /\ pc = "level"
    /\ pc' = "failed"
    /\ err' = "resize"
    /\ UNCHANGED <<config, num_levels, li, level, levelLocals, col, row, resized,
                   progress, dirs, saved, dzi, vipsResult, dzsaveLog, plan>>

\* os.makedirs(level_dir, exist_ok=True) swallowing its failure.
MakedirsOK_always == TRUE

\* os.makedirs(level_dir, exist_ok=True) returns: the output root can be
\* created and written.
MakedirsOK == rootOK

\* generate_level's makedirs and the start of its tile loops.
LevelMakedirs ==
    /\ pc = "mkdir"
    /\ MakedirsOK
    /\ dirs' = dirs \cup {level}
    /\ IF cols > 0 /\ rows > 0
          THEN /\ pc' = "tile"
               /\ col' = 0
               /\ row' = 0
               /\ UNCHANGED <<li, level>>
          ELSE /\ NextLevel
               /\ UNCHANGED <<col, row>>
    /\ UNCHANGED <<config, err, num_levels, levelLocals, resized, progress, saved,
                   dzi, vipsResult, dzsaveLog, plan>>

\* os.makedirs raises: nothing of the level is written.
MakedirsFails ==
    /\ pc = "mkdir"
    /\ ~MakedirsOK
    /\ pc' = "failed"
    /\ err' = "makedirs"
    /\ UNCHANGED <<config, num_levels, li, level, levelLocals, col, row, resized,
                   progress, dirs, saved, dzi, vipsResult, dzsaveLog, plan>>

\* The encoder save_tile picks: JPEG at quality 90 for 'jpg', PNG otherwise.
TileEncoding(fmt) ==
    IF fmt = "jpg" THEN [codec |-> "JPEG", quality |-> JpegQuality]
                   ELSE [codec |-> "PNG", quality |-> 0]

\* The tile loops move on: for col in range(cols): for row in range(rows).
NextTile ==
    IF row + 1 < rows
       THEN /\ row' = row + 1
            /\ UNCHANGED <<col, pc, li, level>>
       ELSE IF col + 1 < cols
               THEN /\ col' = col + 1
                    /\ row' = 0
                    /\ UNCHANGED <<pc, li, level>>
               ELSE /\ NextLevel
                    /\ UNCHANGED <<col, row>>

\* save_tile(scaled_img, level, col, row, level_width, level_height) writes
\* its tile, and the loops move on.
SaveTile ==
    /\ pc = "tile"
    /\ saved' = Append(saved,
                  [level |-> level, col |-> col, row |-> row,
                   box |-> CropBox(col, row, level_width, level_height,
                                   tile_size, overlap),
                   level_width |-> level_width, level_height |-> level_height,
                   ext |-> image_format,
                   encoding |-> TileEncoding(image_format)])
    /\ NextTile
    /\ UNCHANGED <<config, err, num_levels, levelLocals, resized, progress, dirs,
                   dzi, vipsResult, dzsaveLog, plan>>

\* save_tile's failure caught and the loops carried on.
SaveTileFails_swallowed ==
    /\ pc = "tile"
    /\ err' = "save"
    /\ NextTile
    /\ UNCHANGED <<config, num_levels, levelLocals, resized, progress, dirs,
                   saved, dzi, vipsResult, dzsaveLog, plan>>

\* tile.save raises: the exception leaves save_tile, generate_level and
\* generate_tiles.
SaveTileFails ==
    /\ pc = "tile"
    /\ pc' = "failed"
    /\ err' = "save"
    /\ UNCHANGED <<config, num_levels, li, level, levelLocals, col, row, resized,
                   progress, dirs, saved, dzi, vipsResult, dzsaveLog, plan>>

\* The document generate_dzi_descriptor writes.
DziContent ==
    [Format |-> image_format, Overlap |-> overlap, TileSize |-> tile_size,
     Width |-> width, Height |-> height]

\* generate_dzi_descriptor called ahead of the level loop instead of after it.
GenerateDziDescriptor_beforeLoop ==
    /\ \/ /\ pc = "level"
          /\ li = 1
          /\ dzi = <<>>
          /\ dzi' = Append(dzi, DziContent)
          /\ pc' = pc
       \/ /\ pc = "dzi"
          /\ dzi' = dzi
          /\ pc' = "done"
    /\ UNCHANGED <<config, err, num_levels, li, level, levelLocals, col, row,
                   resized, progress, dirs, saved, vipsResult, dzsaveLog, plan>>

\* generate_dzi_descriptor, and generate_tiles returning.
GenerateDziDescriptor ==
    /\ pc = "dzi"
    /\ dzi' = Append(dzi, DziContent)
    /\ pc' = "done"
    /\ UNCHANGED <<config, err, num_levels, li, level, levelLocals, col, row,
                   resized, progress, dirs, saved, vipsResult, dzsaveLog, plan>>

\* open(dzi_path, 'w') or the write raises: no descriptor.
DescriptorFails ==
    /\ pc = "dzi"
    /\ pc' = "failed"
    /\ err' = "descriptor"
    /\ UNCHANGED <<config, num_levels, li, level, levelLocals, col, row, resized,
                   progress, dirs, saved, dzi, vipsResult, dzsaveLog, plan>>

(* ---------------------- generate_deepzoom_vips ------------------------- *)

\* The module-level function is called while no generate_tiles is running.
VipsCallable ==
    /\ pc \in {"start", "done", "failed"}
    /\ vipsResult = "none"

\* What image.dzsave is called with.
DzsaveArgs ==
    [format |-> "jpg", Q |-> VipsQuality, tile_size |-> VipsTileSize,
     overlap |-> VipsOverlap, depth |-> "onetile"]

\* The import failing only after the export has run.
VipsUnavailable_afterWrite ==
    /\ VipsCallable
    /\ ~vipsAvailable
    /\ dzsaveLog' = Append(dzsaveLog, DzsaveArgs)
    /\ vipsResult' = "False"
    /\ UNCHANGED <<config, pc, err, num_levels, li, level, levelLocals, col, row,
                   resized, progress, dirs, saved, dzi, plan>>

\* import pyvips raises ImportError: the first statement of the try, caught,
\* and False returned.
VipsUnavailable ==
    /\ VipsCallable
    /\ ~vipsAvailable
    /\ vipsResult' = "False"
    /\ UNCHANGED <<config, pc, err, num_levels, li, level, levelLocals, col, row,
                   resized, progress, dirs, saved, dzi, dzsaveLog, plan>>

\* pyvips is there: the image is opened, dzsave builds the whole pyramid,
\* and True is returned.
VipsDelegates ==
    /\ VipsCallable
    /\ vipsAvailable
    /\ dzsaveLog' = Append(dzsaveLog, DzsaveArgs)
    /\ vipsResult' = "True"
    /\ UNCHANGED <<config, pc, err, num_levels, li, level, levelLocals, col, row,
                   resized, progress, dirs, saved, dzi, plan>>

\* pyvips is there and Image.new_from_file raises (only ImportError is
\* caught): the exception reaches the caller before dzsave is called.
VipsOpenFails ==
    /\ VipsCallable
    /\ vipsAvailable
    /\ vipsResult' = "raised"
    /\ UNCHANGED <<config, pc, err, num_levels, li, level, levelLocals, col, row,
                   resized, progress, dirs, saved, dzi, dzsaveLog, plan>>

Next ==
    \/ GenerateTilesBegin
    \/ LevelResize
    \/ ResizeFails
    \/ LevelMakedirs
    \/ MakedirsFails
    \/ SaveTile
    \/ SaveTileFails
    \/ GenerateDziDescriptor
    \/ DescriptorFails
    \/ VipsUnavailable
    \/ VipsDelegates
    \/ VipsOpenFails

Spec == Init /\ [][Next]_vars

(* ----------------------- the planning arithmetic ----------------------- *)

\* The source sizes the planning arithmetic is explored for: every small
\* one, and the documented ones.
PlanSizes ==
    { <<w, h>> : w \in 1..MaxPlanDim, h \in 1..MaxPlanDim }
    \cup { <<16000, 16000>>, <<255, 1>>, <<1000, 600>>, <<256, 256>>, <<257, 3>> }

InitPlan ==
    /\ \E s \in PlanSizes :
          /\ width = s[1]
          /\ height = s[2]
    /\ tile_size = DefaultTileSize
    /\ overlap = DefaultOverlap
    /\ image_format = "jpg"
    /\ rootOK = TRUE
    /\ vipsAvailable = FALSE
    /\ pc = "plan"
    /\ err = "none"
    /\ num_levels = 0
    /\ li = 0
    /\ level = 0
    /\ level_width = 0
    /\ level_height = 0
    /\ cols = 0
    /\ rows = 0
    /\ col = 0
    /\ row = 0
    /\ resized = <<>>
    /\ progress = <<>>
    /\ dirs = {}
    /\ saved = <<>>
    /\ dzi = <<>>
    /\ vipsResult = "none"
    /\ dzsaveLog = <<>>
    /\ plan = <<>>

\* A call of get_num_levels().
PlanNumLevels ==
    /\ pc = "plan"
    /\ num_levels' = get_num_levels(width, height)
    /\ pc' = "planning"
    /\ UNCHANGED <<config, err, li, level, levelLocals, col, row, resized, progress,
                   dirs, saved, dzi, vipsResult, dzsaveLog, plan>>

\* A call of get_scale_dimensions(level) for the next level, 0 first.
PlanLevel ==
    /\ pc = "planning"
    /\ Len(plan) < num_levels
    /\ plan' = Append(plan, get_scale_dimensions(width, height, Len(plan)))
    /\ pc' = IF Len(plan) + 1 = num_levels THEN "planned" ELSE "planning"
    /\ UNCHANGED <<config, err, num_levels, li, level, levelLocals, col, row,
                   resized, progress, dirs, saved, dzi, vipsResult, dzsaveLog>>

NextPlan ==
    \/ PlanNumLevels
    \/ PlanLevel

SpecPlan == InitPlan /\ [][NextPlan]_vars

(* ------------------- reference arithmetic of the claims ----------------- *)

\* ceil(a / b) as the least q with q * b >= a.
LeastMultiple(a, b) == CHOOSE q \in 0..a : q * b >= a /\ \A p \in 0..(q - 1) : p * b < a

\* ceil(log2(m)) as the least k >= 0 with 2^k >= m (m <= 2^20).
LeastPower(m) == CHOOSE k \in 0..20 : Pow2(k) >= m /\ \A j \in 0..(k - 1) : Pow2(j) < m

\* The number of tile columns and of tile rows of level l.
Cols(l) == LeastMultiple(get_scale_dimensions(width, height, l)[1], tile_size)

Rows(l) == LeastMultiple(get_scale_dimensions(width, height, l)[2], tile_size)

\* The tile coordinates of level l: [0, cols) x [0, rows).
Grid(l) == (0..(Cols(l) - 1)) \X (0..(Rows(l) - 1))

\* The positions of `saved` that hold a tile of level l.
TilesOf(l) == { i \in DOMAIN saved : saved[i].level = l }

\* Every tile of level l has been written.
LevelWritten(l) ==
    LET done == { <<saved[i].col, saved[i].row>> : i \in TilesOf(l) }
    IN  Grid(l) \subseteq done

\* The levels of the pyramid.
Levels == 0..(get_num_levels(width, height) - 1)

\* Tile i of `saved` is interior to a grid of c columns and r rows.
Interior(i, c, r) ==
    /\ 0 < saved[i].col
    /\ saved[i].col < c - 1
    /\ 0 < saved[i].row
    /\ saved[i].row < r - 1

\* The overlap fits level l: it is at most the tile size, the width of the
\* level's last column and the height of its last row.
OverlapFits(l) ==
    LET d == get_scale_dimensions(width, height, l)
        lastCol == d[1] - (Cols(l) - 1) * tile_size
        lastRow == d[2] - (Rows(l) - 1) * tile_size
    IN  overlap <= tile_size /\ overlap <= lastCol /\ overlap <= lastRow

\* Tile i of `saved` has the full size tile_size + 2 * overlap both ways.
FullSize(i) ==
    /\ saved[i].box.x2 - saved[i].box.x1 = tile_size + 2 * overlap
    /\ saved[i].box.y2 - saved[i].box.y1 = tile_size + 2 * overlap

(* -------------------------------- claims -------------------------------- *)

\* C1: for every source size (w,h) >= (1,1) the size computed for level
\* numLevels-1 is exactly (w,h), and the sizes of consecutive levels are
\* non-decreasing in width and in height.
C1_TopLevelExactAndMonotone ==
    /\ \A i \in 1..(Len(plan) - 1) :
          /\ plan[i][1] <= plan[i + 1][1]
          /\ plan[i][2] <= plan[i + 1][2]
    /\ pc = "planned" =>
          /\ Len(plan) = num_levels
          /\ plan[num_levels] = <<width, height>>

\* C1 witness: a full plan of a non-square source with at least three levels.
C1_Witness ==
    /\ pc = "planned"
    /\ num_levels >= 3
    /\ width # height
    /\ plan[1] # plan[num_levels]

\* C2: get_num_levels is one more than the least k >= 0 with
\* 2^k >= max(w,h); 16000x16000 gives 15, 1x1 gives 1, 255x1 gives 9,
\* 1000x600 gives 11, and max(w,h) <= 1 gives 1.
C2_NumLevels ==
    pc # "plan" =>
       /\ num_levels = LeastPower(Max(width, height)) + 1
       /\ (width = 16000 /\ height = 16000) => num_levels = 15
       /\ (width = 1 /\ height = 1) => num_levels = 1
       /\ (width = 255 /\ height = 1) => num_levels = 9
       /\ (width = 1000 /\ height = 600) => num_levels = 11
       /\ Max(width, height) <= 1 => num_levels = 1

\* C2 witness: the level count of the 16000x16000 source has been computed.
C2_Witness ==
    /\ pc = "planned"
    /\ width = 16000
    /\ height = 16000
    /\ num_levels = 15

\* C3: no tile coordinate is ever written twice (the writes name as many
\* distinct coordinates as there are writes), every write is of a
\* coordinate of its level's grid, and once the build has completed every
\* coordinate of every level's grid has been written.
C3_TilesExactlyOnce ==
    /\ Cardinality({ <<saved[i].level, saved[i].col, saved[i].row>> : i \in DOMAIN saved })
          = Len(saved)
    /\ \A i \in DOMAIN saved : saved[i].level \in Levels
    /\ \A l \in Levels :
          LET c == Cols(l)
              r == Rows(l)
          IN  \A i \in TilesOf(l) :
                 /\ 0 <= saved[i].col /\ saved[i].col < c
                 /\ 0 <= saved[i].row /\ saved[i].row < r
    /\ pc = "done" => \A l \in Levels : LevelWritten(l)

\* C3 witness: a completed build whose top level has several columns and rows.
C3_Witness ==
    /\ pc = "done"
    /\ cols >= 2
    /\ rows >= 2
    /\ Len(saved) >= 6

\* C4: the crop box of every tile written lies within its level:
\* 0 <= x1, x2 <= levelWidth, 0 <= y1, y2 <= levelHeight; for the 1000x600
\* source with tile size 256 and overlap 1 the top level's tile (3,2) has
\* x2 = 1000 and y2 = 600.
C4_BoxWithinLevel ==
    /\ \A i \in DOMAIN saved : saved[i].level \in Levels
    /\ \A l \in Levels :
          LET d == get_scale_dimensions(width, height, l)
          IN  \A i \in TilesOf(l) :
                 /\ 0 <= saved[i].box.x1
                 /\ saved[i].box.x2 <= d[1]
                 /\ 0 <= saved[i].box.y1
                 /\ saved[i].box.y2 <= d[2]
    /\ (width = 1000 /\ height = 600 /\ tile_size = 256 /\ overlap = 1) =>
          \A i \in TilesOf(10) :
             (saved[i].col = 3 /\ saved[i].row = 2) =>
                (saved[i].box.x2 = 1000 /\ saved[i].box.y2 = 600)

\* C4 witness: the top level's edge tile (3,2) of the 1000x600 source is written.
C4_Witness ==
    /\ width = 1000
    /\ height = 600
    /\ \E i \in DOMAIN saved :
          saved[i].level = 10 /\ saved[i].col = 3 /\ saved[i].row = 2

\* C5: the descriptor is written at most once, only when every tile of
\* every level has been written, and exactly once by a build that completes.
C5_DescriptorLast ==
    /\ Len(dzi) <= 1
    /\ dzi # <<>> => \A l \in Levels : LevelWritten(l)
    /\ pc = "done" => Len(dzi) = 1

\* C5 witness: a completed build of several levels with its descriptor written.
C5_Witness ==
    /\ pc = "done"
    /\ Len(dzi) = 1
    /\ num_levels >= 3
    /\ Len(saved) >= 6

\* C6: a step that leaves a failure recorded (the step at which the
\* resample or a tile write fails, and every later step) ends the build in
\* the failed position, writes no tile, no directory and no descriptor,
\* resamples nothing, and removes nothing written before; and no
\* descriptor has been written.
C6_FailureAborts ==
    [][ err' # "none" =>
          /\ pc' = "failed"
          /\ saved' = saved
          /\ dirs' = dirs
          /\ resized' = resized
          /\ dzi = <<>>
          /\ dzi' = <<>> ]_vars

\* C6 witness: a tile write has failed below the top level with tiles
\* already on storage.
C6_Witness ==
    /\ pc = "failed"
    /\ err = "save"
    /\ saved # <<>>
    /\ level < num_levels - 1

C8_VipsFrame ==
    [][ (vipsResult = "none" /\ vipsResult' # "none") =>
          /\ ~vipsAvailable => (vipsResult' = "False" /\ Storage' = Storage)
          /\ vipsAvailable => vipsResult' \in {"True", "raised"}
          /\ vipsResult' = "True" =>
                /\ Len(dzsaveLog') = Len(dzsaveLog) + 1
                /\ dzsaveLog'[Len(dzsaveLog')].tile_size = 256
                /\ dzsaveLog'[Len(dzsaveLog')].overlap = 1
                /\ dzsaveLog'[Len(dzsaveLog')].format = "jpg"
                /\ dzsaveLog'[Len(dzsaveLog')].Q = 90
                /\ <<dirs', saved', dzi'>> = <<dirs, saved, dzi>> ]_vars

\* C8 witness: the library was found missing by a call made after a build
\* had put tiles on storage.
C8_Witness ==
    /\ vipsResult = "False"
    /\ saved # <<>>
    /\ dzsaveLog = <<>>

\* C9 as stated: every interior tile has the full size, whatever the
\* tile size and the overlap.
C9_InteriorFullSize ==
    \A l \in Levels :
       LET c == Cols(l)
           r == Rows(l)
       IN  \A i \in TilesOf(l) : Interior(i, c, r) => FullSize(i)

\* C9 as amended: an interior tile has the full size whenever the overlap
\* is at most the tile size and at most the width of the level's last
\* column and the height of its last row (always so for overlap <= 1).
C9_InteriorFullSizeIfOverlapFits ==
    \A l \in Levels :
       LET c == Cols(l)
           r == Rows(l)
           fits == OverlapFits(l)
       IN  \A i \in TilesOf(l) :
              Interior(i, c, r) =>
                 /\ fits => FullSize(i)
                 /\ overlap <= 1 => FullSize(i)

\* C9 witness: an interior tile written with a positive overlap that fits.
C9_Witness ==
    \E i \in DOMAIN saved :
       /\ Interior(i, Cols(saved[i].level), Rows(saved[i].level))
       /\ overlap >= 2
       /\ OverlapFits(saved[i].level)
       /\ FullSize(i)

\* C10: the progress lines name the levels 0, 1, 2, ... in that order; the
\* tiles are written in non-decreasing level order and a level has tiles
\* written only when every tile of every lower level is written (so none
\* of a level precedes the last of the level below); and a level's
\* directory exists when a tile of it is written.
C10_LevelsAscending ==
    /\ \A i \in DOMAIN progress : progress[i][1] = i - 1
    /\ \A i \in DOMAIN saved :
          /\ saved[i].level \in dirs
          /\ i > 1 => saved[i - 1].level <= saved[i].level
    /\ \A l \in Levels :
          (l > 0 /\ TilesOf(l) # {}) => LevelWritten(l - 1)
    /\ pc = "tile" => level \in dirs

\* C10 witness: tiles of three levels written, the third level in progress.
C10_Witness ==
    /\ pc = "tile"
    /\ Len(progress) = 3
    /\ \E i \in DOMAIN saved : saved[i].level = 2

\* Tile i of `saved`, of a level lw wide and lh tall, has a crop box that
\* holds its base cell clipped to the level.
HoldsBaseCell(i, lw, lh) ==
    /\ saved[i].box.x1 <= saved[i].col * tile_size
    /\ saved[i].box.x2 >= (IF lw <= (saved[i].col + 1) * tile_size
                              THEN lw ELSE (saved[i].col + 1) * tile_size)
    /\ saved[i].box.y1 <= saved[i].row * tile_size
    /\ saved[i].box.y2 >= (IF lh <= (saved[i].row + 1) * tile_size
                              THEN lh ELSE (saved[i].row + 1) * tile_size)

\* Every pixel of a level (lw wide, lh tall, c columns, r rows, its tiles
\* at the positions T of `saved`, one for every grid coordinate) lies in
\* the crop box of a written tile: every pixel falls in a cell of the grid,
\* and the crop box of every tile holds each pixel column and each pixel
\* row of its own cell, so pixel (px, py) is in the box of the tile at
\* (px \div tile_size, py \div tile_size).
LevelCovered(T, lw, lh, c, r) ==
    /\ \A px \in 0..(lw - 1) : px \div tile_size < c
    /\ \A py \in 0..(lh - 1) : py \div tile_size < r
    /\ \A i \in T :
          /\ \A px \in (saved[i].col * tile_size)..(Min(lw, (saved[i].col + 1) * tile_size) - 1) :
                saved[i].box.x1 <= px /\ px < saved[i].box.x2
          /\ \A py \in (saved[i].row * tile_size)..(Min(lh, (saved[i].row + 1) * tile_size) - 1) :
                saved[i].box.y1 <= py /\ py < saved[i].box.y2

\* C11: the crop box of every tile written holds its base cell clipped to
\* the level (x1 <= col*tileSize, x2 >= min(levelWidth, (col+1)*tileSize),
\* and likewise for y) and is non-empty; and whenever generate_tiles stands
\* between two levels or past the last one, the crop boxes of every level
\* written in full cover every pixel of that level.
C11_BoxHoldsBaseCell ==
    \A l \in Levels :
       LET d == get_scale_dimensions(width, height, l)
           T == TilesOf(l)
       IN  /\ \A i \in T :
                 /\ HoldsBaseCell(i, d[1], d[2])
                 /\ saved[i].box.x1 < saved[i].box.x2
                 /\ saved[i].box.y1 < saved[i].box.y2
           /\ (pc \in {"level", "dzi", "done"} /\ LevelWritten(l))
                 => LevelCovered(T, d[1], d[2], Cols(l), Rows(l))

\* C11 witness: a completed build with a positive overlap whose top level
\* has several columns and rows and a last column narrower than a tile.
C11_Witness ==
    /\ pc = "done"
    /\ overlap >= 1
    /\ cols >= 2
    /\ rows >= 2
    /\ width % tile_size # 0
    /\ LevelWritten(num_levels - 1)

====
